---- MODULE Spec2Model ----
(***************************************************************************)
(* Hospital urgency system: the triage manager (hospital.py) over patient  *)
(* records (patient.py).  The waiting set is a heapq binary min-heap kept  *)
(* in a list, the attendance history is a list used as a stack, and the    *)
(* registry is an append-only list.                                        *)
(***************************************************************************)
EXTENDS Naturals, Integers, Sequences, FiniteSets, Bags, TLC

\* ---------------------------------------------------------------- bounds
\* Number of add_patient calls explored.
MaxPatients == 4

\* Number of add_patient calls explored in the runs that also list the
\* collections (SpecViews).
MaxViewPatients == 2

\* Number of add_patient calls explored in the runs where the caller also
\* changes the lists it was handed (SpecCaller).
MaxCallerPatients == 1

\* Highest urgency level given to a registered patient in the explored runs
\* (the menu accepts 1..5; only the relative order of levels reaches the heap).
MaxLevel == 3

\* Number of registrations that succeed in the menu runs (SpecMenu).
MaxMenuPatients == 1

\* Urgency levels given to a Patient built on its own (SpecLabel) reach this
\* far below MinUrgency and above MaxUrgency.
LabelSpan == 25

\* ------------------------------------------------------- program constants
\* main.register_patient accepts urgency levels in range(1, 6).
MinUrgency == 1
MaxUrgency == 5

UrgencyRange == MinUrgency..MaxUrgency

\* Urgency levels of the patients registered in the explored runs.
Levels == {l \in UrgencyRange : l <= MaxLevel}

\* Names typed at the prompt (any non-empty stripped text).
Names == {"Ana"}

\* ------------------------------------------------------------------ state
VARIABLES
    _priority_queue,   \* Hospital._priority_queue: heap array of waiting patients
    _attended_stack,   \* Hospital._attended_stack: attended patients, newest last
    _all_patients,     \* Hospital._all_patients: registry in registration order
    op,                \* the operation that produced this state
    ret,               \* what that operation returned
    raised,            \* the exception that operation raised, "" for none
    registered,        \* every patient ever passed to add_patient
    prev,              \* the state before that operation
    prev2,             \* the state before prev
    attended_run,      \* patients returned by the attends made since the last undo
    undone_run,        \* patients returned by the undos made right after them
    strict_run,        \* the current run of attends then undos with nothing in between
    twin,              \* a second Hospital driven by the same calls
    held,              \* the list object the caller got from the last list operation
    pc,                \* the statement the running operation has reached
    cmp,               \* three patients and the outcome of comparing them
    label,             \* a Patient built on its own and the label asked of it
    entry              \* what was typed at the prompts of the last registration

vars == <<_priority_queue, _attended_stack, _all_patients, op, ret, raised,
          registered, prev, prev2, attended_run, undone_run, strict_run,
          twin, held, pc, cmp, label, entry>>

\* ---------------------------------------------------------------- helpers
Range(s) == {s[i] : i \in DOMAIN s}

Count(s, x) == Cardinality({i \in DOMAIN s : s[i] = x})

\* The multiset of the elements of a sequence.
BagOf(s) == [x \in Range(s) |-> Count(s, x)]

\* ---------------------------------------------------------------- Patient
\* Patient.__init__: stores name and urgency_level as given.  The id field
\* is the identity of the Python object: every caller builds a new object
\* for each registration.
Patient(id, name, urgency_level) ==
    [id |-> id, name |-> name, urgency_level |-> urgency_level]

\* Python's None, as returned by attend_patient / undo_last_attendance.
None == [id |-> 0, name |-> "", urgency_level |-> 0]

\* Patient.URGENCY_LEVELS
URGENCY_LEVELS ==
    (1 :> "RED") @@ (2 :> "ORANGE") @@ (3 :> "YELLOW") @@ (4 :> "GREEN") @@
    (5 :> "BLUE")

\* Patient.get_urgency_name reading the table by subscript, as
\* Patient.URGENCY_LEVELS[urgency_level] does.
get_urgency_name_subscript(self) ==
    IF self.urgency_level \in DOMAIN URGENCY_LEVELS
    THEN URGENCY_LEVELS[self.urgency_level]
    ELSE "KeyError"

\* Patient.get_urgency_name: URGENCY_LEVELS.get(self.urgency_level, "UNKNOWN")
get_urgency_name(self) ==
    IF self.urgency_level \in DOMAIN URGENCY_LEVELS
    THEN URGENCY_LEVELS[self.urgency_level]
    ELSE "UNKNOWN"

\* Patient.__lt__ with equal levels settled by the identity of the objects
\* (as comparing (urgency_level, id(self)) would).
Lt_by_identity(self, other) ==
    \/ self.urgency_level < other.urgency_level
    \/ self.urgency_level = other.urgency_level /\ self.id < other.id

\* Patient.__lt__ with the comparison turned round.
Lt_reversed(self, other) == self.urgency_level > other.urgency_level

\* Patient.__lt__ with <= in place of <.
Lt_orequal(self, other) == self.urgency_level <= other.urgency_level

\* Patient.__lt__
Lt(self, other) == self.urgency_level < other.urgency_level

\* ------------------------------------------------------------------ heapq
\* heapq._siftdown(heap, startpos, pos), positions 0-based as in Python.
RECURSIVE SiftDownLoop(_, _, _, _)
SiftDownLoop(heap, startpos, pos, newitem) ==
    IF pos > startpos
    THEN LET parentpos == (pos - 1) \div 2
             parent == heap[parentpos + 1]
         IN  IF Lt(newitem, parent)
             THEN SiftDownLoop([heap EXCEPT ![pos + 1] = parent],
                               startpos, parentpos, newitem)
             ELSE [heap EXCEPT ![pos + 1] = newitem]
    ELSE [heap EXCEPT ![pos + 1] = newitem]

SiftDown(heap, startpos, pos) == SiftDownLoop(heap, startpos, pos, heap[pos + 1])

\* heapq._siftup(heap, pos): bubble the smaller child up until a leaf, then
\* sift the displaced item down from there.
RECURSIVE SiftUpLoop(_, _, _, _)
SiftUpLoop(heap, startpos, pos, newitem) ==
    LET endpos == Len(heap)
        leftpos == 2 * pos + 1
    IN  IF leftpos < endpos
        THEN LET rightpos == leftpos + 1
                 childpos == IF rightpos < endpos
                                /\ ~Lt(heap[leftpos + 1], heap[rightpos + 1])
                             THEN rightpos
                             ELSE leftpos
             IN  SiftUpLoop([heap EXCEPT ![pos + 1] = heap[childpos + 1]],
                            startpos, childpos, newitem)
        ELSE SiftDown([heap EXCEPT ![pos + 1] = newitem], startpos, pos)

SiftUp(heap, pos) == SiftUpLoop(heap, pos, pos, heap[pos + 1])

\* heapq.heapreplace in place of heappush: the item overwrites the root.
HeapPush_replace(heap, item) ==
    IF heap = <<>> THEN <<item>> ELSE SiftUp([heap EXCEPT ![1] = item], 0)

\* list.append in place of heappush: the item stays in the last slot.
HeapPush_append(heap, item) == Append(heap, item)

\* The waiting patients kept as a sorted list (bisect.insort) instead of a
\* heap: the item is put at its place and every later entry moves up one slot.
RECURSIVE HeapPush_insort(_, _)
HeapPush_insort(heap, item) ==
    IF heap = <<>>
    THEN <<item>>
    ELSE IF Lt(item, Head(heap))
         THEN <<item>> \o heap
         ELSE <<Head(heap)>> \o HeapPush_insort(Tail(heap), item)

\* heapq.heappush(heap, item)
HeapPush(heap, item) == SiftDown(Append(heap, item), 0, Len(heap))

\* The last array slot handed out (list.pop) while the root is removed.
HeapPopItem_last(heap) == heap[Len(heap)]

\* heapq.heappop(heap) on a non-empty heap: the item returned ...
HeapPopItem(heap) == heap[1]

\* heappop that reads the root and forgets to take it out.
HeapPopRest_peek(heap) == heap

\* ... and the heap left behind.
HeapPopRest(heap) ==
    LET lastelt == heap[Len(heap)]
        rest == SubSeq(heap, 1, Len(heap) - 1)
    IN  IF rest # <<>>
        THEN SiftUp([rest EXCEPT ![1] = lastelt], 0)
        ELSE rest

\* __lt__ calls made by heapq._siftdown(heap, startpos, pos): one per turn
\* of its loop.
RECURSIVE SiftDownComparisons(_, _, _, _)
SiftDownComparisons(heap, startpos, pos, newitem) ==
    IF pos > startpos
    THEN LET parentpos == (pos - 1) \div 2
             parent == heap[parentpos + 1]
         IN  IF Lt(newitem, parent)
             THEN 1 + SiftDownComparisons([heap EXCEPT ![pos + 1] = parent],
                                          startpos, parentpos, newitem)
             ELSE 1
    ELSE 0

\* __lt__ calls made by heapq._siftup(heap, pos): one per turn of its loop
\* that finds a right child, then those of the closing _siftdown.
RECURSIVE SiftUpComparisons(_, _, _, _)
SiftUpComparisons(heap, startpos, pos, newitem) ==
    LET endpos == Len(heap)
        leftpos == 2 * pos + 1
    IN  IF leftpos < endpos
        THEN LET rightpos == leftpos + 1
                 childpos == IF rightpos < endpos
                                /\ ~Lt(heap[leftpos + 1], heap[rightpos + 1])
                             THEN rightpos
                             ELSE leftpos
             IN  (IF rightpos < endpos THEN 1 ELSE 0)
                 + SiftUpComparisons([heap EXCEPT ![pos + 1] = heap[childpos + 1]],
                                     startpos, childpos, newitem)
        ELSE SiftDownComparisons([heap EXCEPT ![pos + 1] = newitem],
                                 startpos, pos, newitem)

\* __lt__ calls made by heapq.heappush(heap, item).
HeapPushComparisons(heap, item) ==
    SiftDownComparisons(Append(heap, item), 0, Len(heap), item)

\* __lt__ calls made by heapq.heappop(heap) on a non-empty heap.
HeapPopComparisons(heap) ==
    LET lastelt == heap[Len(heap)]
        rest == SubSeq(heap, 1, Len(heap) - 1)
    IN  IF rest # <<>>
        THEN SiftUpComparisons([rest EXCEPT ![1] = lastelt], 0, 0, lastelt)
        ELSE 0

\* ------------------------------------------------------------ list pieces
\* `if self._priority_queue:` always taken.
HasWaiting_always(queue) == TRUE

\* `if self._priority_queue:` in attend_patient: a list is true when non-empty.
HasWaiting(queue) == queue # <<>>

\* An undo of depth one: only a history of a single entry can be undone.
HasAttended_depth_one(stack) == Len(stack) = 1

\* `if self._attended_stack:` always taken.
HasAttended_always(stack) == TRUE

\* `if self._attended_stack:` in undo_last_attendance.
HasAttended(stack) == stack # <<>>

\* The attended patient put at the front of the history.
StackPush_front(stack, patient) == <<patient>> \o stack

\* The attended patient not recorded at all.
StackPush_skip(stack, patient) == stack

\* The attended patient recorded with its urgency level cleared.
StackPush_marked(stack, patient) ==
    Append(stack, [patient EXCEPT !.urgency_level = 0])

\* self._attended_stack.append(patient)
StackPush(stack, patient) == Append(stack, patient)

\* pop(0): the oldest attendance instead of the newest.
StackTop_first(stack) == stack[1]

\* self._attended_stack.pop(): the value returned (stack non-empty) ...
StackTop(stack) == stack[Len(stack)]

\* pop that removes the oldest entry.
StackPop_first(stack) == Tail(stack)

\* ... and the list left behind.
StackPop(stack) == SubSeq(stack, 1, Len(stack) - 1)

\* insert(0, patient): the newest registration put first.
RegistryAppend_front(all, patient) == <<patient>> \o all

\* The registry entry written twice.
RegistryAppend_twice(all, patient) == Append(Append(all, patient), patient)

\* self._all_patients.append(patient)
RegistryAppend(all, patient) == Append(all, patient)

\* ------------------------------------------------------------------ views
\* A sort that is not stable: an item goes before the first item that is
\* not less than it, so before earlier items of its own level.
RECURSIVE InsertSorted_before_equals(_, _)
InsertSorted_before_equals(list, item) ==
    IF list = <<>>
    THEN <<item>>
    ELSE IF ~Lt(Head(list), item)
         THEN <<item>> \o list
         ELSE <<Head(list)>> \o InsertSorted_before_equals(Tail(list), item)

\* sorted() is stable: an item goes before the first item it is less than,
\* so after every earlier item it is not less than.
RECURSIVE InsertSorted(_, _)
InsertSorted(list, item) ==
    IF list = <<>>
    THEN <<item>>
    ELSE IF Lt(item, Head(list))
         THEN <<item>> \o list
         ELSE <<Head(list)>> \o InsertSorted(Tail(list), item)

\* sorted(list), by Patient.__lt__ alone.
RECURSIVE Sorted(_)
Sorted(list) ==
    IF list = <<>>
    THEN <<>>
    ELSE InsertSorted(Sorted(SubSeq(list, 1, Len(list) - 1)), list[Len(list)])

\* The heap array handed out as it is, unsorted.
waiting_patients_heap == _priority_queue

\* Hospital.waiting_patients(): sorted(self._priority_queue), a new list.
waiting_patients == Sorted(_priority_queue)

\* Hospital.get_attended_patients(): the history list itself.
get_attended_patients == _attended_stack

\* Hospital.get_all_patients(): the registry list itself.
get_all_patients == _all_patients

\* ------------------------------------------------------------------- Init
Snapshot == [op |-> op, ret |-> ret,
             _priority_queue |-> _priority_queue,
             _attended_stack |-> _attended_stack,
             _all_patients |-> _all_patients]

\* A Hospital as a value: the three lists of Hospital.__init__, all empty,
\* and what the last call on it returned.
EmptyHospital == [_priority_queue |-> <<>>, _attended_stack |-> <<>>,
                  _all_patients |-> <<>>, ret |-> None]

\* No run of attends is open.
NoRun == [attends |-> 0, undos |-> 0,
          _priority_queue |-> <<>>, _attended_stack |-> <<>>]

\* The caller holds no list.
NothingHeld == [obj |-> "none", items |-> <<>>, by |-> "none", touched |-> FALSE]

\* No operation is running.
Idle == [at |-> "idle", patient |-> None, partial |-> FALSE]

\* Nothing compared yet.
NotCompared == [done |-> FALSE, a |-> None, b |-> None, c |-> None, lt |-> {}]

\* No Patient built on its own.
NoLabel == [patient |-> None, asked |-> FALSE, name |-> "", raised |-> ""]

\* No registration prompt answered yet.
NothingTyped == [urgency_level |-> <<>>, name |-> <<>>, outcome |-> "none"]

\* Hospital.__init__: three empty collections.
Init ==
    /\ _priority_queue = <<>>
    /\ _attended_stack = <<>>
    /\ _all_patients = <<>>
    /\ op = "__init__"
    /\ ret = None
    /\ raised = ""
    /\ registered = {}
    /\ prev = [op |-> "none", ret |-> None, _priority_queue |-> <<>>,
               _attended_stack |-> <<>>, _all_patients |-> <<>>]
    /\ prev2 = [op |-> "none", ret |-> None, _priority_queue |-> <<>>,
                _attended_stack |-> <<>>, _all_patients |-> <<>>]
    /\ attended_run = <<>>
    /\ undone_run = <<>>
    /\ strict_run = NoRun
    /\ twin = EmptyHospital
    /\ held = NothingHeld
    /\ pc = Idle
    /\ cmp = NotCompared
    /\ label = NoLabel
    /\ entry = NothingTyped

\* Bookkeeping shared by every operation: what was called, what came back.
Record(o, r, e) ==
    /\ op' = o
    /\ ret' = r
    /\ raised' = e
    /\ prev' = Snapshot
    /\ prev2' = prev

\* The run of attends / undos is broken.
ResetRuns == attended_run' = <<>> /\ undone_run' = <<>>

\* A call that neither attends nor undoes: it leaves a run of attends open
\* and ends a run of undos.
KeepAttendedRun ==
    IF undone_run = <<>>
    THEN UNCHANGED <<attended_run, undone_run>>
    ELSE ResetRuns

\* ---------------------------------------------------------------- actions
\* Hospital.add_patient(patient), called with a newly built Patient.
add_patient(name, urgency_level) ==
    /\ Cardinality(registered) < MaxPatients
    /\ LET patient == Patient(Cardinality(registered) + 1, name, urgency_level)
       IN  /\ _priority_queue' = HeapPush(_priority_queue, patient)
           /\ _all_patients' = RegistryAppend(_all_patients, patient)
           /\ registered' = registered \cup {patient}
    /\ UNCHANGED _attended_stack
    /\ Record("add_patient", None, "")
    /\ KeepAttendedRun

\* Hospital.attend_patient()
attend_patient ==
    /\ UNCHANGED <<_all_patients, registered>>
    /\ IF HasWaiting(_priority_queue)
       THEN IF _priority_queue = <<>>
            THEN \* heappop of an empty list
                 /\ UNCHANGED <<_priority_queue, _attended_stack>>
                 /\ Record("attend_patient", None, "IndexError")
                 /\ KeepAttendedRun
            ELSE LET patient == HeapPopItem(_priority_queue)
                 IN  /\ _priority_queue' = HeapPopRest(_priority_queue)
                     /\ _attended_stack' = StackPush(_attended_stack, patient)
                     /\ Record("attend_patient", patient, "")
                     /\ attended_run' = IF undone_run = <<>>
                                        THEN Append(attended_run, patient)
                                        ELSE <<patient>>
                     /\ undone_run' = <<>>
       ELSE /\ UNCHANGED <<_priority_queue, _attended_stack>>
            /\ Record("attend_patient", None, "")
            /\ KeepAttendedRun

\* Hospital.undo_last_attendance()
undo_last_attendance ==
    /\ UNCHANGED <<_all_patients, registered>>
    /\ IF HasAttended(_attended_stack)
       THEN IF _attended_stack = <<>>
            THEN \* pop from an empty list
                 /\ UNCHANGED <<_priority_queue, _attended_stack>>
                 /\ Record("undo_last_attendance", None, "IndexError")
                 /\ ResetRuns
            ELSE LET patient == StackTop(_attended_stack)
                 IN  /\ _attended_stack' = StackPop(_attended_stack)
                     /\ _priority_queue' = HeapPush(_priority_queue, patient)
                     /\ Record("undo_last_attendance", patient, "")
                     /\ IF Len(undone_run) < Len(attended_run)
                        THEN /\ undone_run' = Append(undone_run, patient)
                             /\ UNCHANGED attended_run
                        ELSE ResetRuns
       ELSE /\ UNCHANGED <<_priority_queue, _attended_stack>>
            /\ Record("undo_last_attendance", None, "")
            /\ ResetRuns

\* ------------------------------------------------- the same calls, twice
\* The patient the second Hospital gets for the n-th registration: another
\* object (another identity) with the same name and urgency level.
TwinPatient(n, name, urgency_level) == Patient(0 - n, name, urgency_level)

\* Hospital.add_patient on a Hospital value.
Hospital_add_patient(h, patient) ==
    [h EXCEPT !._priority_queue = HeapPush(@, patient),
              !._all_patients = RegistryAppend(@, patient),
              !.ret = None]

\* Hospital.attend_patient on a Hospital value.
Hospital_attend_patient(h) ==
    IF HasWaiting(h._priority_queue) /\ h._priority_queue # <<>>
    THEN LET patient == HeapPopItem(h._priority_queue)
         IN  [h EXCEPT !._priority_queue = HeapPopRest(@),
                       !._attended_stack = StackPush(@, patient),
                       !.ret = patient]
    ELSE [h EXCEPT !.ret = None]

\* Hospital.undo_last_attendance on a Hospital value.
Hospital_undo_last_attendance(h) ==
    IF HasAttended(h._attended_stack) /\ h._attended_stack # <<>>
    THEN LET patient == StackTop(h._attended_stack)
         IN  [h EXCEPT !._attended_stack = StackPop(@),
                       !._priority_queue = HeapPush(@, patient),
                       !.ret = patient]
    ELSE [h EXCEPT !.ret = None]

\* ---------------------------------------------------- runs with no gap
\* An attend that returned a patient opens a run or, while no undo has been
\* made in it, extends it; the run remembers the lists it started from.
StrictRunAttend ==
    strict_run' =
        IF _priority_queue = <<>>
        THEN NoRun
        ELSE IF strict_run.attends > 0 /\ strict_run.undos = 0
             THEN [strict_run EXCEPT !.attends = @ + 1]
             ELSE [attends |-> 1, undos |-> 0,
                   _priority_queue |-> _priority_queue,
                   _attended_stack |-> _attended_stack]

\* An undo made right after the run's attends or undos counts, up to one
\* undo more than the run has attends; any other undo ends the run.
StrictRunUndo ==
    strict_run' =
        IF strict_run.attends > 0 /\ strict_run.undos <= strict_run.attends
        THEN [strict_run EXCEPT !.undos = @ + 1]
        ELSE NoRun

\* ------------------------------------------------------------- the caller
\* main.register_patient / demo.main: build a Patient and register it, here
\* with both Hospitals.
call_add_patient(name, urgency_level) ==
    /\ add_patient(name, urgency_level)
    /\ twin' = Hospital_add_patient(twin,
                   TwinPatient(Cardinality(registered) + 1, name, urgency_level))
    /\ strict_run' = NoRun
    /\ UNCHANGED <<held, pc, cmp, label, entry>>

\* main.attend_next_patient; the answers of an earlier registration are gone.
call_attend_patient ==
    /\ attend_patient
    /\ twin' = Hospital_attend_patient(twin)
    /\ StrictRunAttend
    /\ entry' = NothingTyped
    /\ UNCHANGED <<held, pc, cmp, label>>

\* main.main, choice 5
call_undo_last_attendance ==
    /\ undo_last_attendance
    /\ twin' = Hospital_undo_last_attendance(twin)
    /\ StrictRunUndo
    /\ entry' = NothingTyped
    /\ UNCHANGED <<held, pc, cmp, label>>

Next ==
    \/ \E name \in Names, urgency_level \in Levels :
           call_add_patient(name, urgency_level)
    \/ call_attend_patient
    \/ call_undo_last_attendance

Spec == Init /\ [][Next]_vars

\* A session in which choice 5 (undo) is never taken.
NextNoUndo ==
    \/ \E name \in Names, urgency_level \in Levels :
           call_add_patient(name, urgency_level)
    \/ call_attend_patient

SpecNoUndo == Init /\ [][NextNoUndo]_vars

\* ------------------------------------------------------ the list operations
\* What a list operation hands to its caller: a list built for the occasion ...
NewList(by, items) ==
    [obj |-> "copy", items |-> items, by |-> by, touched |-> FALSE]

\* ... or one of the Hospital's own lists.
ListReference(by, obj) ==
    [obj |-> obj, items |-> <<>>, by |-> by, touched |-> FALSE]

\* `return self._priority_queue`: the heap array itself.
waiting_patients_result_alias ==
    ListReference("waiting_patients", "_priority_queue")

\* `return sorted(self._priority_queue)`
waiting_patients_result == NewList("waiting_patients", waiting_patients)

\* `return list(self._attended_stack)`: a copy of the history.
get_attended_patients_result_copy ==
    NewList("get_attended_patients", get_attended_patients)

\* `return self._attended_stack`
get_attended_patients_result ==
    ListReference("get_attended_patients", "_attended_stack")

\* `return self._all_patients`
get_all_patients_result == ListReference("get_all_patients", "_all_patients")

\* The items of the list the caller holds, as they are now.
HeldItems ==
    CASE held.obj = "_priority_queue" -> _priority_queue
      [] held.obj = "_attended_stack" -> _attended_stack
      [] held.obj = "_all_patients" -> _all_patients
      [] OTHER -> held.items

\* A list operation: nothing of the Hospital is assigned; op, ret, prev and
\* prev2 go on describing the last add_patient, attend_patient or
\* undo_last_attendance call.
ListOperation(result) ==
    /\ held' = result
    /\ UNCHANGED <<_priority_queue, _attended_stack, _all_patients, registered,
                   op, ret, raised, prev, prev2,
                   attended_run, undone_run, strict_run, twin, pc, cmp,
                   label, entry>>

\* demo.main / main.main: queue = hospital.waiting_patients()
call_waiting_patients == ListOperation(waiting_patients_result)

\* main.view_attended_patients: attended = hospital.get_attended_patients()
call_get_attended_patients == ListOperation(get_attended_patients_result)

\* demo.main: all_patients = hospital.get_all_patients()
call_get_all_patients == ListOperation(get_all_patients_result)

NextViews ==
    \/ \E name \in Names, urgency_level \in Levels :
           /\ Cardinality(registered) < MaxViewPatients
           /\ call_add_patient(name, urgency_level)
    \/ call_attend_patient
    \/ call_undo_last_attendance
    \/ call_waiting_patients
    \/ call_get_attended_patients
    \/ call_get_all_patients

SpecViews == Init /\ [][NextViews]_vars

\* ------------------------------------------- a caller that changes the list
\* list.pop() / list.clear() on a list.
Mutated(kind, list) ==
    IF kind = "list.pop" THEN SubSeq(list, 1, Len(list) - 1) ELSE <<>>

\* The caller changes the list it was handed.  Python lists are shared by
\* reference: the change lands in whichever list object that is.  The caller
\* of the second Hospital does the same to the list it was handed.
caller_mutates_held(kind) ==
    /\ held.obj # "none"
    /\ HeldItems # <<>>
    /\ held' = IF held.obj = "copy"
               THEN [held EXCEPT !.items = Mutated(kind, @), !.touched = TRUE]
               ELSE [held EXCEPT !.touched = TRUE]
    /\ _priority_queue' = IF held.obj = "_priority_queue"
                          THEN Mutated(kind, _priority_queue)
                          ELSE _priority_queue
    /\ _attended_stack' = IF held.obj = "_attended_stack"
                          THEN Mutated(kind, _attended_stack)
                          ELSE _attended_stack
    /\ _all_patients' = IF held.obj = "_all_patients"
                        THEN Mutated(kind, _all_patients)
                        ELSE _all_patients
    /\ twin' = IF held.obj \in {"_priority_queue", "_attended_stack", "_all_patients"}
               THEN [twin EXCEPT ![held.obj] = Mutated(kind, @)]
               ELSE twin
    /\ UNCHANGED <<registered, op, ret, raised, prev, prev2,
                   attended_run, undone_run, strict_run, pc, cmp,
                   label, entry>>

NextCaller ==
    \/ \E name \in Names, urgency_level \in Levels :
           /\ Cardinality(registered) < MaxCallerPatients
           /\ call_add_patient(name, urgency_level)
    \/ call_attend_patient
    \/ call_undo_last_attendance
    \/ call_waiting_patients
    \/ call_get_attended_patients
    \/ call_get_all_patients
    \/ \E kind \in {"list.pop", "list.clear"} : caller_mutates_held(kind)

SpecCaller == Init /\ [][NextCaller]_vars

\* ------------------------------------------------------------ the demo run
\* demo.main registers three patients of urgency 1, 5 and 2, in this order
\* (named A, B, C here).
DemoPatients == <<[name |-> "A", urgency_level |-> 1],
                  [name |-> "B", urgency_level |-> 5],
                  [name |-> "C", urgency_level |-> 2]>>

\* The demo's registrations first, then any calls, with further patients
\* up to MaxPatients.
NextDemo ==
    \/ /\ Cardinality(registered) < Len(DemoPatients)
       /\ LET next == DemoPatients[Cardinality(registered) + 1]
          IN  call_add_patient(next.name, next.urgency_level)
    \/ /\ Cardinality(registered) >= Len(DemoPatients)
       /\ \E name \in Names, urgency_level \in Levels :
              call_add_patient(name, urgency_level)
    \/ Cardinality(registered) >= Len(DemoPatients) /\ call_attend_patient
    \/ Cardinality(registered) >= Len(DemoPatients) /\ call_undo_last_attendance
    \/ Cardinality(registered) >= Len(DemoPatients) /\ call_waiting_patients
    \/ Cardinality(registered) >= Len(DemoPatients) /\ call_get_attended_patients
    \/ Cardinality(registered) >= Len(DemoPatients) /\ call_get_all_patients

SpecDemo == Init /\ [][NextDemo]_vars

\* ------------------------------------------- the operations, by statement
\* Another caller cutting in while an operation runs.
CallerMayCall_anytime == TRUE

\* main.main: one caller, one call at a time; the loop makes its next call
\* when the previous one has returned.
CallerMayCall == pc.at = "idle"

\* The registry has as many entries as queue and history after this step.
SizesAgreeNext ==
    Len(_all_patients') = Len(_priority_queue') + Len(_attended_stack')

\* The operation goes on to its next statement; partial records whether it
\* has left the sizes in disagreement on its way.
Goto(at, patient) ==
    pc' = [at |-> at, patient |-> patient,
           partial |-> (at # "idle" /\ ~SizesAgreeNext) \/ pc.partial]

\* What a statement leaves alone besides the lists it assigns.
StatementFrame ==
    UNCHANGED <<op, ret, raised, prev, prev2, attended_run, undone_run,
                strict_run, twin, held, cmp, label, entry>>

\* The caller builds a Patient and calls add_patient with it.
begin_add_patient(name, urgency_level) ==
    /\ CallerMayCall
    /\ Cardinality(registered) < MaxViewPatients
    /\ LET patient == Patient(Cardinality(registered) + 1, name, urgency_level)
       IN  /\ registered' = registered \cup {patient}
           /\ pc' = [at |-> "add_patient:heappush", patient |-> patient,
                     partial |-> FALSE]
    /\ UNCHANGED <<_priority_queue, _attended_stack, _all_patients>>
    /\ StatementFrame

\* heapq.heappush(self._priority_queue, patient)
add_patient_heappush ==
    /\ pc.at = "add_patient:heappush"
    /\ _priority_queue' = HeapPush(_priority_queue, pc.patient)
    /\ UNCHANGED <<_attended_stack, _all_patients, registered>>
    /\ Goto("add_patient:append", pc.patient)
    /\ StatementFrame

\* self._all_patients.append(patient), and the call returns.
add_patient_append ==
    /\ pc.at = "add_patient:append"
    /\ _all_patients' = RegistryAppend(_all_patients, pc.patient)
    /\ UNCHANGED <<_priority_queue, _attended_stack, registered>>
    /\ Goto("idle", None)
    /\ StatementFrame

\* The caller calls attend_patient.
begin_attend_patient ==
    /\ CallerMayCall
    /\ pc' = [at |-> "attend_patient:if", patient |-> None, partial |-> FALSE]
    /\ UNCHANGED <<_priority_queue, _attended_stack, _all_patients, registered>>
    /\ StatementFrame

\* if self._priority_queue: ... else return None
attend_patient_if ==
    /\ pc.at = "attend_patient:if"
    /\ UNCHANGED <<_priority_queue, _attended_stack, _all_patients, registered>>
    /\ IF HasWaiting(_priority_queue) /\ _priority_queue # <<>>
       THEN Goto("attend_patient:heappop", None)
       ELSE Goto("idle", None)
    /\ StatementFrame

\* patient = heapq.heappop(self._priority_queue)
attend_patient_heappop ==
    /\ pc.at = "attend_patient:heappop"
    /\ _priority_queue # <<>>
    /\ _priority_queue' = HeapPopRest(_priority_queue)
    /\ UNCHANGED <<_attended_stack, _all_patients, registered>>
    /\ Goto("attend_patient:append", HeapPopItem(_priority_queue))
    /\ StatementFrame

\* self._attended_stack.append(patient); return patient
attend_patient_append ==
    /\ pc.at = "attend_patient:append"
    /\ _attended_stack' = StackPush(_attended_stack, pc.patient)
    /\ UNCHANGED <<_priority_queue, _all_patients, registered>>
    /\ Goto("idle", None)
    /\ StatementFrame

\* The caller calls undo_last_attendance.
begin_undo_last_attendance ==
    /\ CallerMayCall
    /\ pc' = [at |-> "undo_last_attendance:if", patient |-> None, partial |-> FALSE]
    /\ UNCHANGED <<_priority_queue, _attended_stack, _all_patients, registered>>
    /\ StatementFrame

\* if self._attended_stack: ... else return None
undo_last_attendance_if ==
    /\ pc.at = "undo_last_attendance:if"
    /\ UNCHANGED <<_priority_queue, _attended_stack, _all_patients, registered>>
    /\ IF HasAttended(_attended_stack) /\ _attended_stack # <<>>
       THEN Goto("undo_last_attendance:pop", None)
       ELSE Goto("idle", None)
    /\ StatementFrame

\* patient = self._attended_stack.pop()
undo_last_attendance_pop ==
    /\ pc.at = "undo_last_attendance:pop"
    /\ _attended_stack # <<>>
    /\ _attended_stack' = StackPop(_attended_stack)
    /\ UNCHANGED <<_priority_queue, _all_patients, registered>>
    /\ Goto("undo_last_attendance:heappush", StackTop(_attended_stack))
    /\ StatementFrame

\* heapq.heappush(self._priority_queue, patient); return patient
undo_last_attendance_heappush ==
    /\ pc.at = "undo_last_attendance:heappush"
    /\ _priority_queue' = HeapPush(_priority_queue, pc.patient)
    /\ UNCHANGED <<_attended_stack, _all_patients, registered>>
    /\ Goto("idle", None)
    /\ StatementFrame

\* The caller looks at the collections through a list operation.
observe ==
    /\ CallerMayCall
    /\ \/ call_waiting_patients
       \/ call_get_attended_patients
       \/ call_get_all_patients

NextSteps ==
    \/ \E name \in Names, urgency_level \in Levels :
           begin_add_patient(name, urgency_level)
    \/ add_patient_heappush
    \/ add_patient_append
    \/ begin_attend_patient
    \/ attend_patient_if
    \/ attend_patient_heappop
    \/ attend_patient_append
    \/ begin_undo_last_attendance
    \/ undo_last_attendance_if
    \/ undo_last_attendance_pop
    \/ undo_last_attendance_heappush
    \/ observe

SpecSteps == Init /\ [][NextSteps]_vars

\* ------------------------------------------------ the ordering on its own
\* The three patients of a comparison, by the name they have in cmp.
Operands == {"a", "b", "c"}

\* Three Patient objects of any levels the menu accepts, not yet compared.
InitOrder ==
    /\ _priority_queue = <<>>
    /\ _attended_stack = <<>>
    /\ _all_patients = <<>>
    /\ op = "__init__"
    /\ ret = None
    /\ raised = ""
    /\ registered = {}
    /\ prev = [op |-> "none", ret |-> None, _priority_queue |-> <<>>,
               _attended_stack |-> <<>>, _all_patients |-> <<>>]
    /\ prev2 = prev
    /\ attended_run = <<>>
    /\ undone_run = <<>>
    /\ strict_run = NoRun
    /\ twin = EmptyHospital
    /\ held = NothingHeld
    /\ pc = Idle
    /\ label = NoLabel
    /\ entry = NothingTyped
    /\ \E la \in UrgencyRange, lb \in UrgencyRange, lc \in UrgencyRange,
          name \in Names :
           cmp = [done |-> FALSE,
                  a |-> Patient(1, name, la),
                  b |-> Patient(2, name, lb),
                  c |-> Patient(3, name, lc),
                  lt |-> {}]

\* x < y evaluated for every pair of the three patients, each with itself
\* included; lt keeps the pairs for which __lt__ returned True.
compare ==
    /\ ~cmp.done
    /\ cmp' = [cmp EXCEPT !.done = TRUE,
                          !.lt = {pair \in Operands \X Operands :
                                      Lt(cmp[pair[1]], cmp[pair[2]])}]
    /\ UNCHANGED <<_priority_queue, _attended_stack, _all_patients, op, ret,
                   raised, registered, prev, prev2, attended_run, undone_run,
                   strict_run, twin, held, pc, label, entry>>

NextOrder == compare

SpecOrder == InitOrder /\ [][NextOrder]_vars

\* ------------------------------------------------- a Patient on its own
\* Levels a caller may hand to Patient(): the constructor takes any.
AnyLevels == (MinUrgency - LabelSpan)..(MaxUrgency + LabelSpan)

\* Patient(name, urgency_level): two assignments, nothing is checked.
construct_patient(name, urgency_level) ==
    /\ label.patient = None
    /\ label' = [patient |-> Patient(1, name, urgency_level), asked |-> FALSE,
                 name |-> "", raised |-> ""]
    /\ UNCHANGED <<_priority_queue, _attended_stack, _all_patients, op, ret,
                   raised, registered, prev, prev2, attended_run, undone_run,
                   strict_run, twin, held, pc, cmp, entry>>

\* patient.get_urgency_name()
call_get_urgency_name ==
    /\ label.patient # None
    /\ ~label.asked
    /\ label' = [label EXCEPT !.asked = TRUE,
                              !.name = get_urgency_name(label.patient)]
    /\ UNCHANGED <<_priority_queue, _attended_stack, _all_patients, op, ret,
                   raised, registered, prev, prev2, attended_run, undone_run,
                   strict_run, twin, held, pc, cmp, entry>>

NextLabel ==
    \/ \E name \in Names, urgency_level \in AnyLevels :
           construct_patient(name, urgency_level)
    \/ call_get_urgency_name

SpecLabel == Init /\ [][NextLabel]_vars

\* ------------------------------------------------------ the menu session
\* Text typed at a prompt is a sequence of characters.
Whitespace == {" ", "\t"}

DigitValue ==
    ("0" :> 0) @@ ("1" :> 1) @@ ("2" :> 2) @@ ("3" :> 3) @@ ("4" :> 4) @@
    ("5" :> 5) @@ ("6" :> 6) @@ ("7" :> 7) @@ ("8" :> 8) @@ ("9" :> 9)

\* str.lstrip()
RECURSIVE LStrip(_)
LStrip(text) ==
    IF text # <<>> /\ text[1] \in Whitespace THEN LStrip(Tail(text)) ELSE text

\* str.rstrip()
RECURSIVE RStrip(_)
RStrip(text) ==
    IF text # <<>> /\ text[Len(text)] \in Whitespace
    THEN RStrip(SubSeq(text, 1, Len(text) - 1))
    ELSE text

\* str.strip() with the left side kept.
Strip_right_only(text) == RStrip(text)

\* str.strip()
Strip(text) == LStrip(RStrip(text))

\* The number written by a run of decimal digits.
RECURSIVE Decimal(_)
Decimal(digits) ==
    IF digits = <<>>
    THEN 0
    ELSE 10 * Decimal(SubSeq(digits, 1, Len(digits) - 1))
         + DigitValue[digits[Len(digits)]]

\* int(text): blanks around the number are dropped, one sign may lead, the
\* rest must be decimal digits; anything else raises ValueError.
ParseInt(text) ==
    LET stripped == Strip(text)
        signed == stripped # <<>> /\ stripped[1] \in {"-", "+"}
        digits == IF signed THEN Tail(stripped) ELSE stripped
        ok == /\ digits # <<>>
              /\ \A i \in DOMAIN digits : digits[i] \in DOMAIN DigitValue
    IN  [ok |-> ok,
         value |-> IF ~ok THEN 0
                   ELSE IF signed /\ stripped[1] = "-"
                        THEN 0 - Decimal(digits)
                        ELSE Decimal(digits)]

\* The str made of the characters of text.
RECURSIVE Join(_)
Join(text) == IF text = <<>> THEN "" ELSE text[1] \o Join(Tail(text))

\* urgency_level in range(0, 6)
InRange_from_zero(urgency_level) == urgency_level \in 0..MaxUrgency

\* urgency_level in range(1, 6)
InRange(urgency_level) == urgency_level \in MinUrgency..MaxUrgency

\* Answers typed at "Enter urgency level (1-5): ".
LevelTexts ==
    { <<>>, <<"a">>, <<"1">>, <<"0">>, <<"6">>, <<" ", "3", " ">>,
      <<"0", "5">>, <<"1", "0">>, <<"-", "1">>, <<"3", ".", "0">> }

\* Answers typed at "Enter patient name: ".
NameTexts ==
    { <<>>, <<" ", "\t">>, <<"A">>, <<" ", "A", " ">>, <<"A", " ", "B">> }

\* What the session remembers of the prompts.
Typed(urgency_level, name, outcome) ==
    entry' = [urgency_level |-> urgency_level, name |-> name, outcome |-> outcome]

\* The registration ends without a Patient.
NotRegistered ==
    UNCHANGED <<_priority_queue, _attended_stack, _all_patients, op, ret,
                raised, registered, prev, prev2, attended_run, undone_run,
                strict_run, twin, held, pc, cmp, label>>

\* main.register_patient(hospital) with the two answers typed.
register_patient(level_text, name_text) ==
    LET parsed == ParseInt(level_text)
        name == Strip(name_text)
    IN  IF ~parsed.ok
        THEN /\ Typed(level_text, <<>>, "ValueError")
             /\ NotRegistered
        ELSE IF ~InRange(parsed.value)
        THEN /\ Typed(level_text, <<>>, "Invalid urgency level!")
             /\ NotRegistered
        ELSE IF name = <<>>
        THEN /\ Typed(level_text, name_text, "Patient name cannot be empty!")
             /\ NotRegistered
        ELSE /\ Cardinality(registered) < MaxMenuPatients
             /\ Typed(level_text, name_text, "registered")
             /\ add_patient(Join(name), parsed.value)
             /\ twin' = Hospital_add_patient(twin,
                            TwinPatient(Cardinality(registered) + 1,
                                        Join(name), parsed.value))
             /\ strict_run' = NoRun
             /\ UNCHANGED <<held, pc, cmp, label>>

NextMenu ==
    \/ \E level_text \in LevelTexts, name_text \in NameTexts :
           register_patient(level_text, name_text)
    \/ call_attend_patient
    \/ call_undo_last_attendance

SpecMenu == Init /\ [][NextMenu]_vars

\* ================================================================ claims
Attended == op = "attend_patient" /\ ret # None

Undone == op = "undo_last_attendance" /\ ret # None

\* C1: between operations, the registry has as many entries as the waiting
\* queue and the attendance history together.
C1_SizeInvariant ==
    Len(_all_patients) = Len(_priority_queue) + Len(_attended_stack)

C1_Witness ==
    /\ Undone
    /\ prev.op = "attend_patient"
    /\ prev2.op = "add_patient"
    /\ _priority_queue # <<>>
    /\ _attended_stack # <<>>

\* C2: every waiting or attended patient is registered, and every registered
\* patient is in exactly one of the waiting queue and the history.
C2_ExactlyOneOfWaitingHistory ==
    /\ Range(_priority_queue) \cup Range(_attended_stack) \subseteq Range(_all_patients)
    /\ \A p \in Range(_all_patients) :
           Count(_priority_queue, p) + Count(_attended_stack, p) = 1

C2_Witness ==
    /\ Len(_all_patients) >= 3
    /\ Len(_attended_stack) >= 1
    /\ Len(_priority_queue) >= 1
    /\ Undone

\* C3: every patient ever passed to add_patient is listed exactly once by
\* get_all_patients, in every later state, whatever attends and undos follow.
C3_RegisteredListedOnce ==
    \A p \in registered : Count(get_all_patients, p) = 1

C3_Witness ==
    /\ Cardinality(registered) >= 2
    /\ Undone
    /\ prev.op = "attend_patient"
    /\ \E p \in registered : p \in Range(_attended_stack)

\* C4: with patients waiting, attend_patient returns one of them, and no
\* patient that was waiting before the call has a lower urgency level.
C4_AttendReturnsMostUrgent ==
    (op = "attend_patient" /\ prev._priority_queue # <<>>) =>
        /\ ret \in Range(prev._priority_queue)
        /\ \A q \in Range(prev._priority_queue) :
               /\ ret.urgency_level <= q.urgency_level
               /\ ~Lt(q, ret)

C4_Witness ==
    /\ Attended
    /\ Len(prev._priority_queue) >= 3
    /\ \E q \in Range(prev._priority_queue) : ret.urgency_level < q.urgency_level
    /\ \E q \in Range(prev._priority_queue) :
           q # ret /\ q.urgency_level = ret.urgency_level
    /\ prev.op = "undo_last_attendance"

\* C5: a successful attend_patient takes exactly one occurrence of the
\* returned patient out of the waiting queue, appends it at the tail of the
\* history (earlier entries keep their order), and leaves the registry as is.
C5_AttendEffect ==
    Attended =>
        /\ BagOf(_priority_queue) (+) SetToBag({ret}) = BagOf(prev._priority_queue)
        /\ Len(_priority_queue) = Len(prev._priority_queue) - 1
        /\ _attended_stack = Append(prev._attended_stack, ret)
        /\ get_attended_patients[Len(get_attended_patients)] = ret
        /\ _all_patients = prev._all_patients

C5_Witness ==
    /\ Attended
    /\ prev._attended_stack # <<>>
    /\ Len(_priority_queue) >= 2

\* C6: attend_patient with nobody waiting returns None, raises nothing, and
\* leaves the queue, the history and the registry unchanged.
C6_AttendOnEmpty ==
    (op = "attend_patient" /\ prev._priority_queue = <<>>) =>
        /\ ret = None
        /\ raised = ""
        /\ _priority_queue = prev._priority_queue
        /\ _attended_stack = prev._attended_stack
        /\ _all_patients = prev._all_patients

C6_Witness ==
    /\ op = "attend_patient"
    /\ prev._priority_queue = <<>>
    /\ _attended_stack # <<>>

\* C7: undo_last_attendance with an empty history returns None, raises
\* nothing, and leaves the queue, the history and the registry unchanged.
C7_UndoOnEmpty ==
    (op = "undo_last_attendance" /\ prev._attended_stack = <<>>) =>
        /\ ret = None
        /\ raised = ""
        /\ _priority_queue = prev._priority_queue
        /\ _attended_stack = prev._attended_stack
        /\ _all_patients = prev._all_patients

C7_Witness ==
    /\ op = "undo_last_attendance"
    /\ prev._attended_stack = <<>>
    /\ prev.op = "undo_last_attendance"
    /\ prev.ret # None
    /\ _priority_queue # <<>>

\* C8: a successful undo_last_attendance removes exactly the tail of the
\* history and returns it, the waiting queue grows by exactly that patient,
\* and the rest of the history and the registry are unchanged.
C8_UndoEffect ==
    Undone =>
        /\ ret = prev._attended_stack[Len(prev._attended_stack)]
        /\ _attended_stack = SubSeq(prev._attended_stack, 1, Len(prev._attended_stack) - 1)
        /\ BagOf(_priority_queue) = BagOf(prev._priority_queue) (+) SetToBag({ret})
        /\ Len(_priority_queue) = Len(prev._priority_queue) + 1
        /\ _all_patients = prev._all_patients

C8_Witness ==
    /\ Undone
    /\ Len(prev._attended_stack) >= 2
    /\ prev._priority_queue # <<>>

\* C9: with somebody waiting, attend_patient directly followed by
\* undo_last_attendance returns the same patient twice and leaves the same
\* multiset waiting and the same history as before the attend.
C9_AttendUndoRoundTrip ==
    (/\ op = "undo_last_attendance"
     /\ prev.op = "attend_patient"
     /\ prev2._priority_queue # <<>>) =>
        /\ prev.ret # None
        /\ ret = prev.ret
        /\ BagOf(_priority_queue) = BagOf(prev2._priority_queue)
        /\ _attended_stack = prev2._attended_stack

C9_Witness ==
    /\ Undone
    /\ prev.op = "attend_patient"
    /\ Len(prev2._priority_queue) >= 3
    /\ prev2._attended_stack # <<>>
    /\ _priority_queue # prev2._priority_queue

\* The last n entries of a sequence.
LastN(s, n) == SubSeq(s, Len(s) - n + 1, Len(s))

\* C10: after attends of P1, P2, P3 with no undo in between the history
\* lists them in that order, and the three undos that follow return P3, then
\* P2, then P1.
C10_HistoryIsLifo ==
    /\ (undone_run = <<>> /\ Len(attended_run) >= 3) =>
           /\ Len(get_attended_patients) >= 3
           /\ LastN(get_attended_patients, 3) = LastN(attended_run, 3)
    /\ \A i \in 1..Len(undone_run) :
           undone_run[i] = attended_run[Len(attended_run) - i + 1]

C10_Witness ==
    /\ Len(attended_run) = 3
    /\ Len(undone_run) = 3
    /\ Undone
    /\ _attended_stack = <<>>

\* C11: waiting_patients returns exactly the waiting patients (nothing
\* dropped, nothing duplicated) in non-decreasing urgency-level order.
C11_WaitingSorted ==
    /\ BagOf(waiting_patients) = BagOf(_priority_queue)
    /\ Len(waiting_patients) = Len(_priority_queue)
    /\ \A i, j \in DOMAIN waiting_patients :
           i < j => waiting_patients[i].urgency_level <= waiting_patients[j].urgency_level

C11_Witness ==
    /\ Len(_priority_queue) >= 4
    /\ waiting_patients # _priority_queue
    /\ \E i, j \in DOMAIN _priority_queue :
           i < j /\ _priority_queue[i].urgency_level = _priority_queue[j].urgency_level
    /\ prev.op = "undo_last_attendance"
    /\ prev.ret # None

\* The patient handed to the latest add_patient call.
LastRegistered == CHOOSE p \in registered : p.id = Cardinality(registered)

\* C13: add_patient succeeds in any state: it adds exactly the given patient
\* to the waiting queue, appends it at the tail of the registry, leaves the
\* history unchanged and raises nothing.
C13_RegisterEffect ==
    /\ Cardinality(registered) < MaxPatients =>
           \A name \in Names, urgency_level \in Levels :
               ENABLED add_patient(name, urgency_level)
    /\ op = "add_patient" =>
           /\ raised = ""
           /\ BagOf(_priority_queue) =
                  BagOf(prev._priority_queue) (+) SetToBag({LastRegistered})
           /\ Len(_priority_queue) = Len(prev._priority_queue) + 1
           /\ _all_patients = Append(prev._all_patients, LastRegistered)
           /\ _attended_stack = prev._attended_stack

C13_Witness ==
    /\ op = "add_patient"
    /\ prev.op = "undo_last_attendance"
    /\ prev.ret # None
    /\ prev._attended_stack # <<>>
    /\ Len(prev._priority_queue) >= 2

\* C16: after k attends that returned a patient, with nothing in between, k
\* undos in a row all return a patient and leave the history as it was before
\* the first attend and the same multiset waiting; when that history was
\* empty, one more undo returns None.
C16_UndoHasNoDepthLimit ==
    LET k == strict_run.attends
        u == strict_run.undos
    IN  /\ (k > 0 /\ u >= 1 /\ u <= k) =>
               /\ op = "undo_last_attendance"
               /\ ret # None
        /\ (k > 0 /\ u = k) =>
               /\ _attended_stack = strict_run._attended_stack
               /\ BagOf(_priority_queue) = BagOf(strict_run._priority_queue)
        /\ (k > 0 /\ u = k + 1 /\ strict_run._attended_stack = <<>>) =>
               /\ op = "undo_last_attendance"
               /\ ret = None
               /\ raised = ""

C16_Witness ==
    /\ strict_run.attends >= 3
    /\ strict_run.undos = strict_run.attends + 1
    /\ strict_run._attended_stack = <<>>
    /\ Len(strict_run._priority_queue) > strict_run.attends
    /\ ret = None

\* The registration index of a patient: its place in the registry.
RegIndex(all, patient) == CHOOSE i \in DOMAIN all : all[i] = patient

RegIndexes(list, all) == [i \in DOMAIN list |-> RegIndex(all, list[i])]

\* C18: two Hospitals given the same calls, with patients of the same urgency
\* levels registered in the same order (but other objects), list the waiting
\* patients in the same positions and return from every attend the patient of
\* the same registration index.
C18_TieOrderDeterministic ==
    /\ RegIndexes(waiting_patients, _all_patients) =
           RegIndexes(Sorted(twin._priority_queue), twin._all_patients)
    /\ (ret = None) = (twin.ret = None)
    /\ Attended => RegIndex(_all_patients, ret) = RegIndex(twin._all_patients, twin.ret)

C18_Witness ==
    /\ Attended
    /\ twin.ret # ret
    /\ twin.ret.id # ret.id
    /\ \E q \in Range(_priority_queue) : q.urgency_level = ret.urgency_level
    /\ \E i, j \in DOMAIN waiting_patients :
           /\ i < j
           /\ waiting_patients[i].urgency_level = waiting_patients[j].urgency_level
           /\ waiting_patients[i].id > waiting_patients[j].id
    /\ prev.op = "undo_last_attendance"

IsPrefix(a, b) == Len(a) <= Len(b) /\ SubSeq(b, 1, Len(a)) = a

\* A step in which the caller is handed a list by the named operation.
Handed(by) == held' # held /\ ~held'.touched /\ held'.by = by

\* A step in which the caller changes the list it holds.
CallerMutation == \E kind \in {"list.pop", "list.clear"} : caller_mutates_held(kind)

\* C12: waiting_patients changes none of the three collections (the heap
\* array keeps its layout) and hands out a new list: the caller changing
\* that list changes neither the collections nor what the next attend returns.
C12_WaitingListIsACopy ==
    [][ /\ Handed("waiting_patients") =>
               /\ UNCHANGED <<_priority_queue, _attended_stack, _all_patients>>
               /\ held'.obj = "copy"
               /\ held'.items = waiting_patients
        /\ (CallerMutation /\ held.by = "waiting_patients") =>
               /\ UNCHANGED <<_priority_queue, _attended_stack, _all_patients>>
               /\ held'.items # held.items
               /\ _priority_queue # <<>> =>
                      HeapPopItem(_priority_queue') = HeapPopItem(_priority_queue)
      ]_vars

C12_Witness ==
    /\ held.by = "waiting_patients"
    /\ held.touched
    /\ held.items # waiting_patients
    /\ _priority_queue # <<>>
    /\ C1_SizeInvariant

\* C14: the registry only grows, at the tail: across every step the old
\* registry is a prefix of the new one, it is the same after every step that
\* is not a registration (attend, undo, the list operations), and
\* get_all_patients lists the patients in the order of their add_patient calls.
C14_RegistryAppendOnly ==
    /\ [](\A i \in DOMAIN get_all_patients : get_all_patients[i].id = i)
    /\ [][ /\ IsPrefix(_all_patients, _all_patients')
           /\ registered' = registered => _all_patients' = _all_patients
           /\ registered' # registered =>
                  _all_patients' = Append(_all_patients, LastRegistered')
         ]_vars

C14_Witness ==
    /\ held.by = "get_all_patients"
    /\ Len(get_all_patients) >= 2
    /\ op = "undo_last_attendance"
    /\ ret # None
    /\ _attended_stack # <<>>

\* C19: get_attended_patients and get_all_patients hand out the Hospital's
\* own lists: a change the caller makes to the list is a change of
\* _attended_stack / _all_patients, so such a caller reaches states in which
\* the registry no longer has as many entries as queue and history together.
C19_InternalListsExposed ==
    [][ /\ Handed("get_attended_patients") => held'.obj = "_attended_stack"
        /\ Handed("get_all_patients") => held'.obj = "_all_patients"
        /\ (CallerMutation /\ held.by = "get_attended_patients") =>
               /\ Len(_attended_stack') < Len(_attended_stack)
               /\ IsPrefix(_attended_stack', _attended_stack)
        /\ (CallerMutation /\ held.by = "get_all_patients") =>
               /\ Len(_all_patients') < Len(_all_patients)
               /\ IsPrefix(_all_patients', _all_patients)
      ]_vars

C19_Witness ==
    /\ held.touched
    /\ held.by \in {"get_attended_patients", "get_all_patients"}
    /\ ~C1_SizeInvariant

DemoA == Patient(1, "A", 1)

DemoB == Patient(2, "B", 5)

DemoC == Patient(3, "C", 2)

\* Exactly the demo's three patients have been registered.
DemoRegistered == registered = {DemoA, DemoB, DemoC}

\* C15: from an empty Hospital, registering A(1), B(5), C(2) gives the
\* waiting list [A, C, B]; attend then returns A, leaving [C, B] waiting and
\* [A] attended; undo then returns A, leaving [A, C, B] waiting and nobody
\* attended.
C15_DemoScenario ==
    /\ (DemoRegistered /\ op = "add_patient") =>
           waiting_patients = <<DemoA, DemoC, DemoB>>
    /\ (DemoRegistered /\ op = "attend_patient" /\ prev.op = "add_patient") =>
           /\ ret = DemoA
           /\ waiting_patients = <<DemoC, DemoB>>
           /\ get_attended_patients = <<DemoA>>
    /\ (/\ DemoRegistered
        /\ op = "undo_last_attendance"
        /\ prev.op = "attend_patient"
        /\ prev2.op = "add_patient") =>
           /\ ret = DemoA
           /\ waiting_patients = <<DemoA, DemoC, DemoB>>
           /\ get_attended_patients = <<>>

C15_Witness ==
    /\ DemoRegistered
    /\ op = "undo_last_attendance"
    /\ prev.op = "attend_patient"
    /\ prev2.op = "add_patient"
    /\ held.by = "waiting_patients"
    /\ HeldItems = <<DemoA, DemoC, DemoB>>
    /\ _priority_queue # HeldItems

Precedes(x, y) == <<x, y>> \in cmp.lt

\* Neither precedes the other.
Incomparable(x, y) == ~Precedes(x, y) /\ ~Precedes(y, x)

\* C20: over patients with levels in 1..5, __lt__ answers True exactly when
\* the left level is the smaller one, and it is a strict weak ordering:
\* irreflexive, asymmetric, transitive, with transitive incomparability,
\* and two patients are incomparable exactly when their levels are equal.
C20_StrictWeakOrdering ==
    cmp.done =>
        /\ \A x \in Operands, y \in Operands :
               Precedes(x, y) <=> cmp[x].urgency_level < cmp[y].urgency_level
        /\ \A x \in Operands : ~Precedes(x, x)
        /\ \A x \in Operands, y \in Operands : Precedes(x, y) => ~Precedes(y, x)
        /\ \A x \in Operands, y \in Operands, z \in Operands :
               (Precedes(x, y) /\ Precedes(y, z)) => Precedes(x, z)
        /\ \A x \in Operands, y \in Operands, z \in Operands :
               (Incomparable(x, y) /\ Incomparable(y, z)) => Incomparable(x, z)
        /\ \A x \in Operands, y \in Operands :
               Incomparable(x, y) <=> cmp[x].urgency_level = cmp[y].urgency_level

C20_Witness ==
    /\ cmp.done
    /\ cmp.a.urgency_level = MinUrgency
    /\ cmp.b.urgency_level = MaxUrgency
    /\ cmp.c.urgency_level = MaxUrgency
    /\ cmp.lt = {<<"a", "b">>, <<"a", "c">>}

\* C21: get_urgency_name gives RED for level 1, ORANGE for 2, YELLOW for 3,
\* GREEN for 4, BLUE for 5 and UNKNOWN for every other level, and building
\* a Patient with a level outside 1..5 raises nothing and keeps the level.
C21_LabelOfLevel ==
    /\ label.patient # None =>
           /\ label.raised = ""
           /\ label.patient.urgency_level \in AnyLevels
    /\ label.asked =>
           label.name = CASE label.patient.urgency_level = 1 -> "RED"
                          [] label.patient.urgency_level = 2 -> "ORANGE"
                          [] label.patient.urgency_level = 3 -> "YELLOW"
                          [] label.patient.urgency_level = 4 -> "GREEN"
                          [] label.patient.urgency_level = 5 -> "BLUE"
                          [] OTHER -> "UNKNOWN"

C21_Witness ==
    /\ label.asked
    /\ label.patient.urgency_level = MaxUrgency + 1
    /\ label.name = "UNKNOWN"

\* C22: the registration menu registers validated patients only.  When the
\* urgency answer is not a number or not in 1..5, or the name answer is
\* blank, no patient is added and waiting, history and registry stay as
\* they were; otherwise exactly the patient with the typed level and the
\* stripped name is added.  So every patient of the registry has a level in
\* 1..5 and a non-empty name.
C22_MenuRegistersValidatedOnly ==
    /\ [](\A i \in DOMAIN _all_patients :
              /\ _all_patients[i].urgency_level \in UrgencyRange
              /\ _all_patients[i].name # ""
              /\ _all_patients[i].name \notin {" A ", " A", "A ", " ", " \t"})
    /\ [][ (/\ entry'.outcome # "none"
            /\ entry' # entry \/ Len(_all_patients') # Len(_all_patients)) =>
               IF \/ ~ParseInt(entry'.urgency_level).ok
                  \/ ParseInt(entry'.urgency_level).value \notin UrgencyRange
                  \/ \A i \in DOMAIN entry'.name : entry'.name[i] \in Whitespace
               THEN /\ UNCHANGED <<_priority_queue, _attended_stack,
                                   _all_patients, registered>>
                    /\ entry'.outcome # "registered"
               ELSE /\ Len(_all_patients') = Len(_all_patients) + 1
                    /\ _all_patients'[Len(_all_patients')].urgency_level
                           = ParseInt(entry'.urgency_level).value
                    /\ entry'.outcome = "registered"
         ]_vars

C22_Witness ==
    /\ Len(_all_patients) = 1
    /\ _all_patients[1].name = "A"
    /\ _all_patients[1].urgency_level = 3
    /\ entry.urgency_level = <<"6">>
    /\ entry.outcome = "Invalid urgency level!"
    /\ _attended_stack # <<>>

\* Every patient record the manager holds or has handed out.
RecordsInSight ==
    Range(_priority_queue) \cup Range(_attended_stack) \cup Range(_all_patients)
        \cup Range(HeldItems) \cup (IF ret = None THEN {} ELSE {ret})

\* C23: no operation of the manager changes a patient record: whatever
\* add_patient, attend_patient, undo_last_attendance and list operations
\* follow a registration, the record found in the queue, the history, the
\* registry, a returned list or a return value has the name and the urgency
\* level it was registered with.
C23_RecordsNeverMutated ==
    /\ \A p \in RecordsInSight :
           \E r \in registered :
               /\ r.id = p.id
               /\ r.name = p.name
               /\ r.urgency_level = p.urgency_level
    /\ \A r1 \in registered, r2 \in registered : r1.id = r2.id => r1 = r2

C23_Witness ==
    /\ Cardinality(registered) = 2
    /\ op = "attend_patient"
    /\ prev.op = "undo_last_attendance"
    /\ prev.ret # None
    /\ ret # None
    /\ held.by = "get_attended_patients"
    /\ HeldItems = <<ret>>

\* C24: whenever a patient is waiting, the first entry of the list that
\* waiting_patients() returns is the very record (the same object, not just
\* one of the same urgency level) that the next attend_patient returns.
C24_FirstListedIsNextAttended ==
    [][ (_priority_queue # <<>> /\ op' = "attend_patient") =>
            /\ waiting_patients # <<>>
            /\ ret' = waiting_patients[1]
            /\ ret'.id = waiting_patients[1].id
      ]_vars

C24_Witness ==
    /\ Attended
    /\ prev.op = "undo_last_attendance"
    /\ Len(prev._priority_queue) = 4
    /\ Cardinality({q \in Range(prev._priority_queue) :
                        q.urgency_level = ret.urgency_level}) >= 3
    /\ ret.id # 1

\* The whole part of the base-2 logarithm of n, 0 for n <= 1: the height
\* of a heap of n entries.
RECURSIVE Log2(_)
Log2(n) == IF n <= 1 THEN 0 ELSE 1 + Log2(n \div 2)

\* The array slots of after that do not hold what before held there.
Changed(before, after) ==
    Cardinality({i \in DOMAIN after : i \notin DOMAIN before \/ before[i] # after[i]})

\* C25: putting a patient into the waiting heap (add_patient, and again
\* undo_last_attendance) and taking the next one out (attend_patient) cost a
\* number of comparisons and of array slots written that is bounded by the
\* height of the heap, the logarithm of the number of waiting patients, and
\* does not grow with their number itself.
C25_LogarithmicCost ==
    /\ (op = "add_patient" \/ Undone) =>
           LET n == Len(prev._priority_queue)
               item == IF Undone THEN ret ELSE _all_patients[Len(_all_patients)]
           IN  /\ HeapPushComparisons(prev._priority_queue, item) <= Log2(n + 1)
               /\ Changed(prev._priority_queue, _priority_queue) <= Log2(n + 1) + 1
    /\ Attended =>
           LET m == Len(prev._priority_queue) - 1
           IN  /\ HeapPopComparisons(prev._priority_queue) <= 2 * Log2(m)
               /\ Changed(prev._priority_queue, _priority_queue)
                      <= IF m = 0 THEN 0 ELSE Log2(m) + 1

C25_Witness ==
    /\ op = "add_patient"
    /\ Len(prev._priority_queue) = 3
    /\ HeapPushComparisons(prev._priority_queue, _priority_queue[1]) = 2
    /\ Changed(prev._priority_queue, _priority_queue) = 3
    /\ prev.op = "undo_last_attendance"
    /\ prev.ret # None

\* C26: in every state reached by add_patient, attend_patient and
\* undo_last_attendance the array _priority_queue is a binary min-heap: the
\* patient at any index i > 0 does not precede the patient at its parent
\* index (i - 1) div 2, that is, its urgency level is not the lower one.
C26_HeapProperty ==
    \A i \in 1..(Len(_priority_queue) - 1) :
        LET child == _priority_queue[i + 1]
            parent == _priority_queue[((i - 1) \div 2) + 1]
        IN  /\ ~Lt(child, parent)
            /\ child.urgency_level >= parent.urgency_level

C26_Witness ==
    /\ Len(_priority_queue) = 4
    /\ _priority_queue # Sorted(_priority_queue)
    /\ op = "undo_last_attendance"
    /\ ret # None
    /\ _priority_queue[4].urgency_level < _priority_queue[3].urgency_level

\* The patients attended in the open run of attends, oldest first.
Served == LastN(_attended_stack, strict_run.attends)

\* C27: draining.  From any state with n waiting patients, attend_patient
\* calls with no add_patient or undo in between all return a patient while
\* one is waiting, in non-decreasing order of urgency level, each appended
\* to the history in that order; after n of them the queue is empty and
\* holds nobody else, and the call after that returns None and changes
\* nothing.
C27_Draining ==
    /\ (strict_run.attends > 0 /\ strict_run.undos = 0) =>
           LET k == strict_run.attends
               n == Len(strict_run._priority_queue)
           IN  /\ k <= n
               /\ Attended
               /\ _attended_stack = strict_run._attended_stack \o Served
               /\ ret = Served[k]
               /\ \A i \in 1..(k - 1) :
                      Served[i].urgency_level <= Served[i + 1].urgency_level
               /\ \A i \in 1..k, j \in DOMAIN _priority_queue :
                      Served[i].urgency_level <= _priority_queue[j].urgency_level
               /\ BagOf(Served) (+) BagOf(_priority_queue)
                      = BagOf(strict_run._priority_queue)
               /\ Len(_priority_queue) = n - k
               /\ (k = n) => _priority_queue = <<>>
    /\ (op = "attend_patient" /\ prev._priority_queue # <<>>) => ret # None
    /\ (op = "attend_patient" /\ prev.op = "attend_patient" /\ prev.ret # None
            /\ prev._priority_queue = <<>>) =>
           /\ ret = None
           /\ raised = ""
           /\ _priority_queue = <<>>
           /\ _attended_stack = prev._attended_stack
           /\ _all_patients = prev._all_patients

C27_Witness ==
    /\ strict_run.attends = 3
    /\ strict_run.undos = 0
    /\ Len(strict_run._priority_queue) = 3
    /\ strict_run._attended_stack # <<>>
    /\ _priority_queue = <<>>
    /\ Served[1].urgency_level < Served[3].urgency_level
    /\ Served[2].urgency_level = Served[3].urgency_level

\* P was registered before Q and has Q's urgency level.
EarlierEqual(P, Q) == P.urgency_level = Q.urgency_level /\ P.id < Q.id

\* C28: among waiting patients of equal urgency level attend_patient serves
\* in registration order: with no attendance ever undone, a patient is never
\* in the history while a patient of its level registered before it still
\* waits, and equal-level patients stand in the history in registration
\* order.
C28_FifoAmongEqualLevels ==
    /\ \A i \in DOMAIN _attended_stack, j \in DOMAIN _priority_queue :
           ~EarlierEqual(_priority_queue[j], _attended_stack[i])
    /\ \A i \in DOMAIN _attended_stack, j \in DOMAIN _attended_stack :
           (i < j) => ~EarlierEqual(_attended_stack[j], _attended_stack[i])

\* C29: attend_patient, undo_last_attendance, attend_patient in a row, with
\* a patient waiting at the start: the second attend returns the record the
\* first one returned, also when other waiting patients share its level.
C29_UndoThenAttendIsStable ==
    (/\ op = "attend_patient"
     /\ prev.op = "undo_last_attendance"
     /\ prev2.op = "attend_patient"
     /\ prev2.ret # None) =>
        /\ prev.ret = prev2.ret
        /\ ret = prev2.ret

\* C30: the list waiting_patients() returns is the order of service: the
\* patients returned by a run of attend_patient calls with no add_patient
\* or undo in between are, record by record, the first entries of the list
\* as it was when the run began, equal urgency levels included.
C30_ListPredictsService ==
    (strict_run.attends > 0 /\ strict_run.undos = 0) =>
        Served = SubSeq(Sorted(strict_run._priority_queue), 1, strict_run.attends)

====
